---- MODULE Spec2Model ----
(***************************************************************************)
(* Model of the HDC302x driver (src/src/device_impl.rs, src/src/types.rs). *)
(* One step of the model is the completion of one suspension point of the  *)
(* driver (a bus write, write_read, read or a delay) together with the     *)
(* synchronous code that follows it, or the synchronous code of a public   *)
(* operation between two calls of cmd_and_read.                            *)
(* Sequences are 1-based: the source's read_buf[i] is read_buf[i + 1].     *)
(***************************************************************************)
EXTENDS Integers, Sequences, FiniteSets, TLC

(* ------------------------------------------------------------------ *)
(* Bounds of the model                                                 *)
(* ------------------------------------------------------------------ *)

\* Largest number of failing plain reads the transport produces within one
\* cmd_and_read call (the loop of the source has no bound of its own).
MaxRetries == 1

(* ------------------------------------------------------------------ *)
(* CRC-8/NRSC-5 (crc crate catalogue entry CRC_8_NRSC_5)               *)
(* ------------------------------------------------------------------ *)

CRC_POLY == 49
CRC_INIT == 255

RECURSIVE BitXor(_, _, _)
BitXor(a, b, n) ==
    IF n = 0 THEN 0
    ELSE ((a + b) % 2) + 2 * BitXor(a \div 2, b \div 2, n - 1)

Xor8(a, b) == BitXor(a, b, 8)

RECURSIVE CrcShift(_, _)
CrcShift(c, n) ==
    IF n = 0 THEN c
    ELSE CrcShift(IF c >= 128 THEN Xor8((c * 2) % 256, CRC_POLY)
                              ELSE (c * 2) % 256,
                  n - 1)

\* the crate's lookup table: the register after eight shifts, per byte
CrcTable == [b \in 0 .. 255 |-> CrcShift(b, 8)]

CrcUpdate(c, byte) == CrcTable[Xor8(c, byte)]

\* CRC.checksum(read_word) for a 2-byte word
checksum(b0, b1) == CrcUpdate(CrcUpdate(CRC_INIT, b0), b1)

(* ------------------------------------------------------------------ *)
(* hw_def: command table, addresses, parameters (data sheet values)     *)
(* ------------------------------------------------------------------ *)

I2cAddr == {"Addr00", "Addr01", "Addr10", "Addr11"}

as_u8(a) ==
    CASE a = "Addr00" -> 68
      [] a = "Addr01" -> 69
      [] a = "Addr10" -> 70
      [] a = "Addr11" -> 71

Command ==
    {"AutoExit", "AutoReadTempAndRelHumid", "AutoReadMinTemp", "AutoReadMaxTemp",
     "AutoReadMinRelHumid", "AutoReadMaxRelHumid", "HeaterEnable", "HeaterDisable",
     "HeaterConfig", "StatusRead", "StatusClear", "SerialID54", "SerialID32",
     "SerialID10", "ManufacturerID", "SoftReset"}

\* the 16-bit opcode of a command
CommandCode(c) ==
    CASE c = "AutoExit"                -> 12435   \* 0x3093
      [] c = "AutoReadTempAndRelHumid" -> 57344   \* 0xE000
      [] c = "AutoReadMinTemp"         -> 57346   \* 0xE002
      [] c = "AutoReadMaxTemp"         -> 57347   \* 0xE003
      [] c = "AutoReadMinRelHumid"     -> 57348   \* 0xE004
      [] c = "AutoReadMaxRelHumid"     -> 57349   \* 0xE005
      [] c = "HeaterEnable"            -> 12397   \* 0x306D
      [] c = "HeaterDisable"           -> 12390   \* 0x3066
      [] c = "HeaterConfig"            -> 12398   \* 0x306E
      [] c = "StatusRead"              -> 62253   \* 0xF32D
      [] c = "StatusClear"             -> 12353   \* 0x3041
      [] c = "SerialID54"              -> 13955   \* 0x3683
      [] c = "SerialID32"              -> 13956   \* 0x3684
      [] c = "SerialID10"              -> 13957   \* 0x3685
      [] c = "ManufacturerID"          -> 14209   \* 0x3781
      [] c = "SoftReset"               -> 12450   \* 0x30A2

SampleRate == {"OneShot", "Auto500mHz", "Auto1Hz", "Auto2Hz", "Auto4Hz", "Auto10Hz"}

\* the four low-power levels, 0 = lowest noise .. 3 = lowest power
LowPowerMode == 0 .. 3

\* opcode of start-sampling for a rate and a low-power level
start_sampling_command(rate, lpm) ==
    LET msb == CASE rate = "OneShot"    -> 36
                 [] rate = "Auto500mHz" -> 32
                 [] rate = "Auto1Hz"    -> 33
                 [] rate = "Auto2Hz"    -> 34
                 [] rate = "Auto4Hz"    -> 35
                 [] rate = "Auto10Hz"   -> 39
        lsb == CASE rate = "OneShot"    -> <<0, 11, 22, 255>>
                 [] rate = "Auto500mHz" -> <<50, 36, 47, 255>>
                 [] rate = "Auto1Hz"    -> <<48, 38, 45, 255>>
                 [] rate = "Auto2Hz"    -> <<54, 32, 43, 255>>
                 [] rate = "Auto4Hz"    -> <<52, 34, 41, 255>>
                 [] rate = "Auto10Hz"   -> <<55, 33, 42, 255>>
    IN  msb * 256 + lsb[lpm + 1]

HeaterLevel == {"Off", "Quarter", "Half", "Full"}

NoSetting == -1

\* HeaterLevel::setting(): None (NoSetting) for Off, Some(nonzero u16) otherwise
setting(level) ==
    CASE level = "Off"     -> NoSetting
      [] level = "Quarter" -> 159      \* 0x009F
      [] level = "Half"    -> 1023     \* 0x03FF
      [] level = "Full"    -> 16383    \* 0x3FFF

AutoReadTarget ==
    {"LastTempAndRelHumid", "MinTemp", "MaxTemp", "MinRelHumid", "MaxRelHumid"}

\* u16::to_be_bytes
to_be_bytes(w) == <<w \div 256, w % 256>>

(* ------------------------------------------------------------------ *)
(* Inputs of the model: what the transport can deliver                 *)
(* ------------------------------------------------------------------ *)

\* transport failures E the bus can report
TransportErrors == {"Nack", "ArbitrationLoss"}

\* 16-bit words a reply can carry
Words == {43707, 52445, 61183}     \* 0xAABB, 0xCCDD, 0xEEFF

\* the three bytes of one word on the wire; good = its checksum byte is intact,
\* otherwise the checksum byte (and only it) has one bit flipped
WireWord(w, good) ==
    LET b == to_be_bytes(w)
        c == checksum(b[1], b[2])
    IN  <<b[1], b[2], IF good THEN c ELSE Xor8(c, 1)>>

Zeros(n) == [i \in 1 .. n |-> 0]

\* the buffers a transport can fill for a read of 3 bytes (rest stays 0)
Replies1 == {WireWord(w, g) \o Zeros(3) : w \in Words, g \in BOOLEAN}

\* the buffers a transport can fill for a read of 6 bytes
Replies2 ==
    {WireWord(w0, g0) \o WireWord(w1, g1) :
         w0 \in Words, g0 \in BOOLEAN, w1 \in Words, g1 \in BOOLEAN}

\* the buffers a transport can fill for a read of 3*n bytes
Replies(n) == IF n = 1 THEN Replies1 ELSE Replies2

(* ------------------------------------------------------------------ *)
(* State                                                               *)
(* ------------------------------------------------------------------ *)

VARIABLES
    i2c_addr,     \* Hdc302x.i2c_addr, set by new()
    op,           \* the public operation in progress (or the last one), with its arguments
    step,         \* which cmd_and_read call of the operation is in progress
    pc,           \* the suspension point the driver is at
    cmd_bytes,    \* bytes of the command about to be written
    read_buf,     \* cmd_and_read's read_buf: [u8; 6]
    read_vals,    \* the caller's array of u16 whose leading slice is cmd_and_read's read_vals
    num_vals,     \* read_vals.len(): the length of that slice
    call_base,    \* length of the bus log when cmd_and_read was entered
    attempts,     \* failed plain reads of the current cmd_and_read call
    ret,          \* what the last cmd_and_read call returned
    bytes,        \* read_serial_number's bytes: [u8; 6]
    result,       \* what the public operation returned
    bus,          \* the bus transactions and delays of the operation, in order
    heater_on,    \* device: heater enabled
    heater_cfg,   \* device: heater power setting last configured (0: reset default)
    auto_mode     \* device: self-timed sampling is running

vars == <<i2c_addr, op, step, pc, cmd_bytes, read_buf, read_vals, num_vals,
          call_base, attempts, ret, bytes, result, bus, heater_on, heater_cfg, auto_mode>>

\* Result values
OkUnit == [tag |-> "Ok", val |-> <<>>]
Ok(v) == [tag |-> "Ok", val |-> v]
ErrI2c(e) == [tag |-> "I2c", val |-> e]
ErrCrcMismatch == [tag |-> "CrcMismatch", val |-> <<>>]
NoResult == [tag |-> "None", val |-> <<>>]

\* One entry of the bus log: a bus call with the bytes written (out), the number
\* of bytes asked for (len), the bytes received (inp), the failure reported
\* (err, NoErr when the call succeeded) and the function that made the call (by).
NoErr == "none"

\* Mutant of BusOp: every bus call goes to the default address of the device.
BusOp_default_address(kind, out, len, inp, err, by) ==
    [kind |-> kind, addr |-> as_u8("Addr00"), out |-> out, len |-> len,
     inp |-> inp, ok |-> (err = NoErr), err |-> err, by |-> by]

BusOp(kind, out, len, inp, err, by) ==
    [kind |-> kind, addr |-> as_u8(i2c_addr), out |-> out, len |-> len,
     inp |-> inp, ok |-> (err = NoErr), err |-> err, by |-> by]

\* delay_ms(ms)
DelayOp(ms, by) ==
    [kind |-> "delay", addr |-> 0, out |-> <<>>, len |-> ms, inp |-> <<>>,
     ok |-> TRUE, err |-> NoErr, by |-> by]

\* the failure of a bus call whose error the driver matches with Err(_)
Unbound == "_"

\* the addresses handles are constructed with: the lowest and the highest
Constructed == {"Addr00", "Addr11"}

\* Hdc302x::new(i2c, delay, i2c_addr)
Init ==
    /\ i2c_addr \in Constructed
    /\ op = [name |-> "new", arg |-> <<>>]
    /\ step = 0
    /\ pc = "idle"
    /\ cmd_bytes = <<>>
    /\ read_buf = Zeros(6)
    /\ read_vals = <<>>
    /\ num_vals = 0
    /\ call_base = 0
    /\ attempts = 0
    /\ ret = NoResult
    /\ bytes = Zeros(6)
    /\ result = NoResult
    /\ bus = <<>>
    /\ heater_on = FALSE
    /\ heater_cfg = 0
    /\ auto_mode = FALSE

(* ------------------------------------------------------------------ *)
(* The device: what a command that reached it does to the heater       *)
(* ------------------------------------------------------------------ *)

Opcode(c) == to_be_bytes(CommandCode(c))

DeviceHeaterOn(out, was) ==
    IF out = Opcode("HeaterEnable") THEN TRUE
    ELSE IF out = Opcode("HeaterDisable") \/ out = Opcode("SoftReset") THEN FALSE
    ELSE was

DeviceHeaterCfg(out, was) ==
    IF Len(out) = 4 /\ SubSeq(out, 1, 2) = Opcode("HeaterConfig")
    THEN out[3] * 256 + out[4]
    ELSE IF out = Opcode("SoftReset") THEN 0
    ELSE was

\* the device samples on its own from a start-sampling command with a rate
\* other than one-shot until auto-exit or reset
AutoStartBytes ==
    {to_be_bytes(start_sampling_command(rate, lpm)) :
         rate \in SampleRate \ {"OneShot"}, lpm \in LowPowerMode}

DeviceAutoMode(out, was) ==
    IF out \in AutoStartBytes
    THEN TRUE
    ELSE IF out = Opcode("AutoExit") \/ out = Opcode("SoftReset") THEN FALSE
    ELSE was

\* a write that succeeded delivers its bytes; one that failed delivers nothing
Deliver(out, ok) ==
    /\ heater_on' = IF ok THEN DeviceHeaterOn(out, heater_on) ELSE heater_on
    /\ heater_cfg' = IF ok THEN DeviceHeaterCfg(out, heater_cfg) ELSE heater_cfg
    /\ auto_mode' = IF ok THEN DeviceAutoMode(out, auto_mode) ELSE auto_mode

(* ------------------------------------------------------------------ *)
(* cmd_and_read: the transaction engine                                *)
(* ------------------------------------------------------------------ *)

\* entry of cmd_and_read, up to its first bus call
Call(cb, n) ==
    /\ cmd_bytes' = cb
    /\ num_vals' = n
    /\ call_base' = Len(bus')
    /\ read_buf' = Zeros(6)
    /\ attempts' = 0
    /\ pc' = IF n > 2 THEN "panic"
             ELSE IF n = 0 THEN "write" ELSE "write_read"

\* Mutant of crc_mismatch: the checksum byte is never compared.
crc_mismatch_unchecked(buf, ii) == FALSE

\* *read_crc != crc_expect for word ii (0-based) of the buffer
crc_mismatch(buf, ii) ==
    buf[ii * 3 + 3] # checksum(buf[ii * 3 + 1], buf[ii * 3 + 2])

\* Mutant of read_word: the low byte is taken first.
read_word_little_endian(buf, ii) == buf[ii * 3 + 2] * 256 + buf[ii * 3 + 1]

\* (read_word[0] as u16) << 8 | read_word[1] as u16
read_word(buf, ii) == buf[ii * 3 + 1] * 256 + buf[ii * 3 + 2]

\* Mutant of Accepted: only the checksum of word 0 is compared.
Accepted_first_word_only(buf, ii, n) ==
    IF crc_mismatch(buf, 0) THEN 0 ELSE n

\* number of leading words of the buffer the loop accepts before it stops
RECURSIVE Accepted(_, _, _)
Accepted(buf, ii, n) ==
    IF ii >= n \/ crc_mismatch(buf, ii) THEN ii ELSE Accepted(buf, ii + 1, n)

\* Mutant of validate: the loop goes on after a mismatch and stores every word
\* whose checksum matches.
validate_all_words(buf, vals, n) ==
    LET k == Accepted(buf, 0, n)
    IN  [ret  |-> IF k < n THEN ErrCrcMismatch ELSE OkUnit,
         vals |-> [i \in 1 .. Len(vals) |->
                      IF i <= n /\ ~crc_mismatch(buf, i - 1)
                      THEN read_word(buf, i - 1) ELSE vals[i]]]

\* the for loop over the words: the value returned and read_vals after it
validate(buf, vals, n) ==
    LET k == Accepted(buf, 0, n)
    IN  [ret  |-> IF k < n THEN ErrCrcMismatch ELSE OkUnit,
         vals |-> [i \in 1 .. Len(vals) |->
                      IF i <= k THEN read_word(buf, i - 1) ELSE vals[i]]]

\* the code after the bytes were obtained
Validated(buf) ==
    /\ read_buf' = buf
    /\ read_vals' = validate(buf, read_vals, num_vals).vals
    /\ ret' = validate(buf, read_vals, num_vals).ret
    /\ pc' = "ret"

cr_write_ok ==
    /\ pc = "write"
    /\ bus' = Append(bus, BusOp("write", cmd_bytes, 0, <<>>, NoErr, "cmd_and_read"))
    /\ Deliver(cmd_bytes, TRUE)
    /\ ret' = OkUnit
    /\ pc' = "ret"
    /\ UNCHANGED <<i2c_addr, op, step, cmd_bytes, read_buf, read_vals, num_vals,
                   call_base, attempts, bytes, result>>

\* Mutant of cr_write_err: the failure of the write is swallowed.
cr_write_err_swallowed ==
    /\ pc = "write"
    /\ \E e \in TransportErrors :
         /\ bus' = Append(bus, BusOp("write", cmd_bytes, 0, <<>>, e, "cmd_and_read"))
         /\ Deliver(cmd_bytes, FALSE)
         /\ ret' = OkUnit
         /\ pc' = "ret"
    /\ UNCHANGED <<i2c_addr, op, step, cmd_bytes, read_buf, read_vals, num_vals,
                   call_base, attempts, bytes, result>>

cr_write_err ==
    /\ pc = "write"
    /\ \E e \in TransportErrors :
         /\ bus' = Append(bus, BusOp("write", cmd_bytes, 0, <<>>, e, "cmd_and_read"))
         /\ Deliver(cmd_bytes, FALSE)
         /\ ret' = ErrI2c(e)
         /\ pc' = "ret"
    /\ UNCHANGED <<i2c_addr, op, step, cmd_bytes, read_buf, read_vals, num_vals,
                   call_base, attempts, bytes, result>>

cr_write_read_ok ==
    /\ pc = "write_read"
    /\ \E buf \in Replies(num_vals) :
         /\ bus' = Append(bus, BusOp("write_read", cmd_bytes, 3 * num_vals,
                                     SubSeq(buf, 1, 3 * num_vals), NoErr,
                                     "cmd_and_read"))
         /\ Validated(buf)
    /\ UNCHANGED <<i2c_addr, op, step, cmd_bytes, num_vals, call_base, attempts,
                   bytes, result, heater_on, heater_cfg, auto_mode>>

\* Mutant of cr_write_read_err: the failure of write_read is returned to the
\* caller, as the failure of write is.
cr_write_read_err_surfaced ==
    /\ pc = "write_read"
    /\ \E e \in TransportErrors :
         /\ bus' = Append(bus, BusOp("write_read", cmd_bytes, 3 * num_vals, <<>>,
                                     e, "cmd_and_read"))
         /\ ret' = ErrI2c(e)
         /\ pc' = "ret"
    /\ UNCHANGED <<i2c_addr, op, step, cmd_bytes, read_buf, read_vals, num_vals,
                   call_base, attempts, bytes, result, heater_on, heater_cfg, auto_mode>>

cr_write_read_err ==
    /\ pc = "write_read"
    /\ bus' = Append(bus, BusOp("write_read", cmd_bytes, 3 * num_vals, <<>>,
                                Unbound, "cmd_and_read"))
    /\ pc' = "read"
    /\ UNCHANGED <<i2c_addr, op, step, cmd_bytes, read_buf, read_vals, num_vals,
                   call_base, attempts, ret, bytes, result, heater_on, heater_cfg, auto_mode>>

cr_read_ok ==
    /\ pc = "read"
    /\ \E buf \in Replies(num_vals) :
         /\ bus' = Append(bus, BusOp("read", <<>>, 3 * num_vals,
                                     SubSeq(buf, 1, 3 * num_vals), NoErr,
                                     "cmd_and_read"))
         /\ Validated(buf)
    /\ UNCHANGED <<i2c_addr, op, step, cmd_bytes, num_vals, call_base, attempts,
                   bytes, result, heater_on, heater_cfg, auto_mode>>

\* Mutant of cr_read_err: the loop gives up at the first plain read that
\* fails and returns its failure.
cr_read_err_gives_up ==
    /\ pc = "read"
    /\ \E e \in TransportErrors :
         /\ bus' = Append(bus, BusOp("read", <<>>, 3 * num_vals, <<>>, e,
                                     "cmd_and_read"))
         /\ ret' = ErrI2c(e)
         /\ pc' = "ret"
    /\ attempts' = attempts + 1
    /\ UNCHANGED <<i2c_addr, op, step, cmd_bytes, read_buf, read_vals, num_vals,
                   call_base, bytes, result, heater_on, heater_cfg, auto_mode>>

\* Mutant of cr_read_err: the read is retried at once, without the delay.
cr_read_err_no_delay ==
    /\ pc = "read"
    /\ attempts < MaxRetries
    /\ bus' = Append(bus, BusOp("read", <<>>, 3 * num_vals, <<>>, Unbound,
                                "cmd_and_read"))
    /\ attempts' = attempts + 1
    /\ pc' = "read"
    /\ UNCHANGED <<i2c_addr, op, step, cmd_bytes, read_buf, read_vals, num_vals,
                   call_base, ret, bytes, result, heater_on, heater_cfg, auto_mode>>

cr_read_err ==
    /\ pc = "read"
    /\ attempts < MaxRetries
    /\ bus' = Append(bus, BusOp("read", <<>>, 3 * num_vals, <<>>, Unbound,
                                "cmd_and_read"))
    /\ attempts' = attempts + 1
    /\ pc' = "delay"
    /\ UNCHANGED <<i2c_addr, op, step, cmd_bytes, read_buf, read_vals, num_vals,
                   call_base, ret, bytes, result, heater_on, heater_cfg, auto_mode>>

\* Mutant of cr_delay: after the delay the whole transaction is retried.
cr_delay_resends ==
    /\ pc = "delay"
    /\ bus' = Append(bus, DelayOp(1, "cmd_and_read"))
    /\ pc' = "write_read"
    /\ UNCHANGED <<i2c_addr, op, step, cmd_bytes, read_buf, read_vals, num_vals,
                   call_base, attempts, ret, bytes, result, heater_on, heater_cfg,
                   auto_mode>>

cr_delay ==
    /\ pc = "delay"
    /\ bus' = Append(bus, DelayOp(1, "cmd_and_read"))
    /\ pc' = "read"
    /\ UNCHANGED <<i2c_addr, op, step, cmd_bytes, read_buf, read_vals, num_vals,
                   call_base, attempts, ret, bytes, result, heater_on, heater_cfg, auto_mode>>

cmd_and_read ==
    \/ cr_write_ok
    \/ cr_write_err
    \/ cr_write_read_ok
    \/ cr_write_read_err
    \/ cr_read_ok
    \/ cr_read_err
    \/ cr_delay

(* ------------------------------------------------------------------ *)
(* The public operations                                               *)
(* ------------------------------------------------------------------ *)

\* a caller invokes a public operation on the idle handle
Begin(name, arg, len) ==
    /\ pc = "idle"
    /\ op' = [name |-> name, arg |-> arg]
    /\ step' = 1
    /\ read_vals' = Zeros(len)
    /\ bus' = <<>>
    /\ result' = NoResult
    /\ ret' = NoResult
    /\ bytes' = Zeros(6)
    /\ UNCHANGED <<i2c_addr, heater_on, heater_cfg, auto_mode>>

\* cmd_and_read has returned to operation name, in its call number s
Returned(name, s) ==
    /\ pc = "ret"
    /\ op.name = name
    /\ step = s

\* the operation returns r to its caller
Return(r) ==
    /\ result' = r
    /\ pc' = "idle"
    /\ UNCHANGED <<i2c_addr, op, step, cmd_bytes, read_buf, read_vals, num_vals,
                   call_base, attempts, ret, bytes, bus, heater_on, heater_cfg, auto_mode>>

\* the operation goes on to its next cmd_and_read call
NextCall(cb, n) ==
    /\ UNCHANGED <<i2c_addr, op, read_vals, ret, bytes, result, bus, heater_on,
                   heater_cfg, auto_mode>>
    /\ Call(cb, n)
    /\ step' = step + 1

RawTempAndRelHumid(vals) ==
    [kind |-> "TempAndRelHumid", temperature |-> vals[1], humidity |-> vals[2]]

\* RawDatum::MinTemp(u16), MaxTemp(u16), MinRelHumid(u16), MaxRelHumid(u16)
RawSingle(kind, vals) == [kind |-> kind, raw |-> vals[1]]

\* Option<f32>; a value is held in hundredths of its unit
None == [some |-> FALSE, val |-> 0]
Some(v) == [some |-> TRUE, val |-> v]

\* hw_def: 100 * raw / 65535 percent relative humidity
raw_rel_humid_to_percent(raw) == (10000 * raw) \div 65535

\* hw_def: -45 + 175 * raw / 65535 degrees centigrade
raw_temp_to_centigrade(raw) == (17500 * raw) \div 65535 - 4500

\* RawDatum::centigrade
centigrade(d) ==
    CASE d.kind = "TempAndRelHumid" -> Some(raw_temp_to_centigrade(d.temperature))
      [] d.kind = "MinTemp"         -> Some(raw_temp_to_centigrade(d.raw))
      [] d.kind = "MaxTemp"         -> Some(raw_temp_to_centigrade(d.raw))
      [] d.kind = "MinRelHumid"     -> None
      [] d.kind = "MaxRelHumid"     -> None

\* RawDatum::humidity_percent
humidity_percent(d) ==
    CASE d.kind = "TempAndRelHumid" -> None
      [] d.kind = "MinTemp"         -> None
      [] d.kind = "MaxTemp"         -> None
      [] d.kind = "MinRelHumid"     -> Some(raw_rel_humid_to_percent(d.raw))
      [] d.kind = "MaxRelHumid"     -> Some(raw_rel_humid_to_percent(d.raw))

\* Mutant of one_shot: while the device samples on its own the operation
\* fetches the latest sample instead of triggering a measurement.
one_shot_mode_aware ==
    \/ \E low_power_mode \in LowPowerMode :
         /\ Begin("one_shot", low_power_mode, 2)
         /\ Call(IF auto_mode
                 THEN Opcode("AutoReadTempAndRelHumid")
                 ELSE to_be_bytes(start_sampling_command("OneShot", low_power_mode)), 2)
    \/ /\ Returned("one_shot", 1)
       /\ Return(IF ret.tag # "Ok" THEN ret ELSE Ok(RawTempAndRelHumid(read_vals)))

one_shot ==
    \/ \E low_power_mode \in LowPowerMode :
         /\ Begin("one_shot", low_power_mode, 2)
         /\ Call(to_be_bytes(start_sampling_command("OneShot", low_power_mode)), 2)
    \/ /\ Returned("one_shot", 1)
       /\ Return(IF ret.tag # "Ok" THEN ret ELSE Ok(RawTempAndRelHumid(read_vals)))

auto_start ==
    \/ \E sample_rate \in SampleRate, low_power_mode \in LowPowerMode :
         /\ Begin("auto_start", <<sample_rate, low_power_mode>>, 0)
         /\ Call(to_be_bytes(start_sampling_command(sample_rate, low_power_mode)), 0)
    \/ /\ Returned("auto_start", 1)
       /\ Return(ret)

auto_stop ==
    \/ /\ Begin("auto_stop", <<>>, 0)
       /\ Call(Opcode("AutoExit"), 0)
    \/ /\ Returned("auto_stop", 1)
       /\ Return(ret)

\* Mutant of auto_read_command: the arm of MinRelHumid names the command of
\* MinTemp.
auto_read_command_arm_copied(target) ==
    CASE target = "LastTempAndRelHumid" -> "AutoReadTempAndRelHumid"
      [] target = "MinTemp"             -> "AutoReadMinTemp"
      [] target = "MaxTemp"             -> "AutoReadMaxTemp"
      [] target = "MinRelHumid"         -> "AutoReadMinTemp"
      [] target = "MaxRelHumid"         -> "AutoReadMaxRelHumid"

\* first match of auto_read: the command of a target
auto_read_command(target) ==
    CASE target = "LastTempAndRelHumid" -> "AutoReadTempAndRelHumid"
      [] target = "MinTemp"             -> "AutoReadMinTemp"
      [] target = "MaxTemp"             -> "AutoReadMaxTemp"
      [] target = "MinRelHumid"         -> "AutoReadMinRelHumid"
      [] target = "MaxRelHumid"         -> "AutoReadMaxRelHumid"

\* second match of auto_read: the length of read_buf_slice
auto_read_len(target) ==
    IF target = "LastTempAndRelHumid" THEN 2 ELSE 1

\* third match of auto_read: the datum built from read_buf
auto_read_datum(target, vals) ==
    CASE target = "LastTempAndRelHumid" -> RawTempAndRelHumid(vals)
      [] target = "MinTemp"             -> RawSingle("MinTemp", vals)
      [] target = "MaxTemp"             -> RawSingle("MaxTemp", vals)
      [] target = "MinRelHumid"         -> RawSingle("MinRelHumid", vals)
      [] target = "MaxRelHumid"         -> RawSingle("MaxRelHumid", vals)

auto_read ==
    \/ \E target \in AutoReadTarget :
         /\ Begin("auto_read", target, 2)
         /\ Call(Opcode(auto_read_command(target)), auto_read_len(target))
    \/ /\ Returned("auto_read", 1)
       /\ Return(IF ret.tag # "Ok" THEN ret
                 ELSE Ok(auto_read_datum(op.arg, read_vals)))

\* Mutant of heater_call: the first command sent is heater-enable.
heater_call_enable_first ==
    \E heater_level \in HeaterLevel :
        /\ Begin("heater", heater_level, 0)
        /\ Call(Opcode("HeaterEnable"), 0)

\* heater: the call up to the heater-disable command
heater_call ==
    \E heater_level \in HeaterLevel :
        /\ Begin("heater", heater_level, 0)
        /\ Call(Opcode("HeaterDisable"), 0)

\* Mutant of heater_config_bytes: the parameter is left out.
heater_config_bytes_no_parameter(s) == Opcode("HeaterConfig")

\* the 4 bytes of the heater-configure write
heater_config_bytes(s) == Opcode("HeaterConfig") \o to_be_bytes(s)

\* heater: after the heater-disable command returned
heater_disabled ==
    /\ Returned("heater", 1)
    /\ IF ret.tag # "Ok" THEN Return(ret)
       ELSE IF setting(op.arg) # NoSetting
       THEN /\ cmd_bytes' = heater_config_bytes(setting(op.arg))
            /\ pc' = "heater_write"
            /\ UNCHANGED <<i2c_addr, op, step, read_buf, read_vals, num_vals,
                           call_base, attempts, ret, bytes, result, bus, heater_on,
                           heater_cfg, auto_mode>>
       ELSE Return(OkUnit)

\* Mutant of heater_config: a failure of the heater-configure write is ignored
\* and heater-enable is sent all the same.
heater_config_error_ignored ==
    /\ pc = "heater_write"
    /\ \E e \in {NoErr} \cup TransportErrors :
          /\ bus' = Append(bus, BusOp("write", cmd_bytes, 0, <<>>, e, "heater"))
          /\ Deliver(cmd_bytes, e = NoErr)
          /\ Call(Opcode("HeaterEnable"), 0)
          /\ step' = step + 1
          /\ UNCHANGED <<i2c_addr, op, read_vals, ret, bytes, result>>

\* heater: its own bus write of heater-configure, and what follows it
heater_config ==
    /\ pc = "heater_write"
    /\ \/ /\ bus' = Append(bus, BusOp("write", cmd_bytes, 0, <<>>, NoErr, "heater"))
          /\ Deliver(cmd_bytes, TRUE)
          /\ Call(Opcode("HeaterEnable"), 0)
          /\ step' = step + 1
          /\ UNCHANGED <<i2c_addr, op, read_vals, ret, bytes, result>>
       \/ \E e \in TransportErrors :
          /\ bus' = Append(bus, BusOp("write", cmd_bytes, 0, <<>>, e, "heater"))
          /\ Deliver(cmd_bytes, FALSE)
          /\ result' = ErrI2c(e)
          /\ pc' = "idle"
          /\ UNCHANGED <<i2c_addr, op, step, cmd_bytes, read_buf, read_vals,
                         num_vals, call_base, attempts, ret, bytes>>

\* heater: after the heater-enable command returned
heater_enabled ==
    /\ Returned("heater", 2)
    /\ Return(ret)

heater ==
    \/ heater_call
    \/ heater_disabled
    \/ heater_config
    \/ heater_enabled

\* StatusBits::from(raw); the flags are decoded from raw by fixed bit fields
\* hw_def: the fields of the status register (data sheet: bit offset, width)
STATUS_FIELD_LSBIT_AT_LEAST_ONE_ALERT == 15
STATUS_FIELD_WIDTH_AT_LEAST_ONE_ALERT == 1
STATUS_FIELD_LSBIT_HEATER_ENABLED == 13
STATUS_FIELD_WIDTH_HEATER_ENABLED == 1
STATUS_FIELD_LSBIT_RH_TRACKING_ALERT == 11
STATUS_FIELD_WIDTH_RH_TRACKING_ALERT == 1
STATUS_FIELD_LSBIT_T_TRACKING_ALERT == 10
STATUS_FIELD_WIDTH_T_TRACKING_ALERT == 1
STATUS_FIELD_LSBIT_RH_HIGH_TRACKING_ALERT == 9
STATUS_FIELD_WIDTH_RH_HIGH_TRACKING_ALERT == 1
STATUS_FIELD_LSBIT_RH_LOW_TRACKING_ALERT == 8
STATUS_FIELD_WIDTH_RH_LOW_TRACKING_ALERT == 1
STATUS_FIELD_LSBIT_T_HIGH_TRACKING_ALERT == 7
STATUS_FIELD_WIDTH_T_HIGH_TRACKING_ALERT == 1
STATUS_FIELD_LSBIT_T_LOW_TRACKING_ALERT == 6
STATUS_FIELD_WIDTH_T_LOW_TRACKING_ALERT == 1
STATUS_FIELD_LSBIT_RESET_SINCE_CLEAR == 4
STATUS_FIELD_WIDTH_RESET_SINCE_CLEAR == 1
STATUS_FIELD_LSBIT_CHECKSUM_FAILURE == 0
STATUS_FIELD_WIDTH_CHECKSUM_FAILURE == 1

\* Mutant of StatusField: the shifted word is not masked to the width of the
\* field.
StatusField_unmasked(raw, lsbit, width) == raw \div 2^lsbit # 0

\* (raw >> lsbit) & ((1 << width) - 1) != 0
StatusField(raw, lsbit, width) == (raw \div 2^lsbit) % 2^width # 0

\* the flags of StatusBits
StatusFlags ==
    {"at_least_one_alert", "heater_enabled", "rh_tracking_alert", "t_tracking_alert",
     "rh_high_tracking_alert", "rh_low_tracking_alert", "t_high_tracking_alert",
     "t_low_tracking_alert", "reset_since_clear", "checksum_failure"}

\* StatusBits::from(raw)
StatusBits(raw) ==
    [kind |-> "StatusBits", raw |-> raw,
     at_least_one_alert |->
         StatusField(raw, STATUS_FIELD_LSBIT_AT_LEAST_ONE_ALERT, STATUS_FIELD_WIDTH_AT_LEAST_ONE_ALERT),
     heater_enabled |->
         StatusField(raw, STATUS_FIELD_LSBIT_HEATER_ENABLED, STATUS_FIELD_WIDTH_HEATER_ENABLED),
     rh_tracking_alert |->
         StatusField(raw, STATUS_FIELD_LSBIT_RH_TRACKING_ALERT, STATUS_FIELD_WIDTH_RH_TRACKING_ALERT),
     t_tracking_alert |->
         StatusField(raw, STATUS_FIELD_LSBIT_T_TRACKING_ALERT, STATUS_FIELD_WIDTH_T_TRACKING_ALERT),
     rh_high_tracking_alert |->
         StatusField(raw, STATUS_FIELD_LSBIT_RH_HIGH_TRACKING_ALERT, STATUS_FIELD_WIDTH_RH_HIGH_TRACKING_ALERT),
     rh_low_tracking_alert |->
         StatusField(raw, STATUS_FIELD_LSBIT_RH_LOW_TRACKING_ALERT, STATUS_FIELD_WIDTH_RH_LOW_TRACKING_ALERT),
     t_high_tracking_alert |->
         StatusField(raw, STATUS_FIELD_LSBIT_T_HIGH_TRACKING_ALERT, STATUS_FIELD_WIDTH_T_HIGH_TRACKING_ALERT),
     t_low_tracking_alert |->
         StatusField(raw, STATUS_FIELD_LSBIT_T_LOW_TRACKING_ALERT, STATUS_FIELD_WIDTH_T_LOW_TRACKING_ALERT),
     reset_since_clear |->
         StatusField(raw, STATUS_FIELD_LSBIT_RESET_SINCE_CLEAR, STATUS_FIELD_WIDTH_RESET_SINCE_CLEAR),
     checksum_failure |->
         StatusField(raw, STATUS_FIELD_LSBIT_CHECKSUM_FAILURE, STATUS_FIELD_WIDTH_CHECKSUM_FAILURE)]

\* StatusBits::raw
StatusBits_raw(s) == s.raw

read_status_call ==
    \E clear \in BOOLEAN :
        /\ Begin("read_status", clear, 1)
        /\ Call(Opcode("StatusRead"), 1)

\* Mutant of read_status_read: the status is cleared whether or not the caller
\* asked for it.
read_status_read_clears_always ==
    /\ Returned("read_status", 1)
    /\ IF ret.tag # "Ok" THEN Return(ret)
       ELSE NextCall(Opcode("StatusClear"), 0)

\* read_status: after the status read returned
read_status_read ==
    /\ Returned("read_status", 1)
    /\ IF ret.tag # "Ok" THEN Return(ret)
       ELSE IF op.arg THEN NextCall(Opcode("StatusClear"), 0)
       ELSE Return(Ok(StatusBits(read_vals[1])))

\* Mutant of read_status_cleared: a failure of the status clear is dropped
\* and the status read before it is returned.
read_status_cleared_status_kept ==
    /\ Returned("read_status", 2)
    /\ Return(Ok(StatusBits(read_vals[1])))

\* read_status: after the status clear returned
read_status_cleared ==
    /\ Returned("read_status", 2)
    /\ Return(IF ret.tag # "Ok" THEN ret ELSE Ok(StatusBits(read_vals[1])))

read_status ==
    \/ read_status_call
    \/ read_status_read
    \/ read_status_cleared

\* SerialNumber(bytes)
SerialNumber(b) == [kind |-> "SerialNumber", bytes |-> b]

\* Mutant of serial_store: the word of call s goes to the s-th 2-byte slot,
\* high byte first.
serial_store_big_endian(b, w, s) ==
    [b EXCEPT ![2 * s - 1] = (w \div 256) % 256, ![2 * s] = w % 256]

\* the two assignments after call number s (1, 2, 3) of read_serial_number:
\* bytes[7 - 2s] = (temp_u16[0] >> 8) as u8; bytes[6 - 2s] = temp_u16[0] as u8
\* (0-based indices 5,4 then 3,2 then 1,0)
serial_store(b, w, s) ==
    [b EXCEPT ![8 - 2 * s] = (w \div 256) % 256, ![7 - 2 * s] = w % 256]

\* Mutant of serial_command: the low group is read first, the high group last.
serial_command_low_first(s) ==
    CASE s = 1 -> "SerialID10"
      [] s = 2 -> "SerialID32"
      [] s = 3 -> "SerialID54"

\* the command of call number s of read_serial_number
serial_command(s) ==
    CASE s = 1 -> "SerialID54"
      [] s = 2 -> "SerialID32"
      [] s = 3 -> "SerialID10"

\* Mutant of read_serial_number_call: the three words of the serial number are
\* asked for in one call.
read_serial_number_call_one_call ==
    /\ Begin("read_serial_number", <<>>, 3)
    /\ Call(Opcode(serial_command(1)), 3)

read_serial_number_call ==
    /\ Begin("read_serial_number", <<>>, 1)
    /\ Call(Opcode(serial_command(1)), 1)

\* read_serial_number: after one of its reads returned
read_serial_number_read ==
    /\ pc = "ret"
    /\ op.name = "read_serial_number"
    /\ IF ret.tag # "Ok" THEN Return(ret)
       ELSE IF step < 3
       THEN /\ bytes' = serial_store(bytes, read_vals[1], step)
            /\ UNCHANGED <<i2c_addr, op, read_vals, ret, result, bus, heater_on,
                           heater_cfg, auto_mode>>
            /\ Call(Opcode(serial_command(step + 1)), 1)
            /\ step' = step + 1
       ELSE /\ bytes' = serial_store(bytes, read_vals[1], step)
            /\ result' = Ok(SerialNumber(bytes'))
            /\ pc' = "idle"
            /\ UNCHANGED <<i2c_addr, op, step, cmd_bytes, read_buf, read_vals,
                           num_vals, call_base, attempts, ret, bus, heater_on,
                           heater_cfg, auto_mode>>

read_serial_number ==
    \/ read_serial_number_call
    \/ read_serial_number_read

HexDigit ==
    <<"0", "1", "2", "3", "4", "5", "6", "7", "8", "9", "A", "B", "C", "D", "E", "F">>

\* write!(f, "{:02X}", byte)
Hex2(b) == <<HexDigit[(b \div 16) + 1], HexDigit[(b % 16) + 1]>>

\* Display for SerialNumber: the bytes of self.0 from the last to the first
RECURSIVE fmt_SerialNumber(_)
fmt_SerialNumber(b) ==
    IF b = <<>> THEN <<>>
    ELSE Hex2(b[Len(b)]) \o fmt_SerialNumber(SubSeq(b, 1, Len(b) - 1))

\* ManufacturerId::from(raw); the vendor constant is decoded in types.rs
\* hw_def: the manufacturer ID of Texas Instruments (data sheet: 0x3000)
MANUFACTURER_ID_TEXAS_INSTRUMENTS == 12288

\* ManufacturerId::from(raw)
ManufacturerId(raw) ==
    IF raw = MANUFACTURER_ID_TEXAS_INSTRUMENTS
    THEN [kind |-> "TexasInstruments"]
    ELSE [kind |-> "Other", id |-> raw]

\* Mutant of ManufacturerId_into: both arms give the vendor constant.
ManufacturerId_into_vendor_only(m) == MANUFACTURER_ID_TEXAS_INSTRUMENTS

\* Into<u16> for ManufacturerId
ManufacturerId_into(m) ==
    IF m.kind = "TexasInstruments"
    THEN MANUFACTURER_ID_TEXAS_INSTRUMENTS
    ELSE m.id

read_manufacturer_id ==
    \/ /\ Begin("read_manufacturer_id", <<>>, 1)
       /\ Call(Opcode("ManufacturerID"), 1)
    \/ /\ Returned("read_manufacturer_id", 1)
       /\ Return(IF ret.tag # "Ok" THEN ret ELSE Ok(ManufacturerId(read_vals[1])))

software_reset ==
    \/ /\ Begin("software_reset", <<>>, 0)
       /\ Call(Opcode("SoftReset"), 0)
    \/ /\ Returned("software_reset", 1)
       /\ Return(ret)

(* ------------------------------------------------------------------ *)
(* Specification                                                       *)
(* ------------------------------------------------------------------ *)

Next ==
    \/ cmd_and_read
    \/ one_shot
    \/ auto_start
    \/ auto_stop
    \/ auto_read
    \/ heater
    \/ read_status
    \/ read_serial_number
    \/ read_manufacturer_id
    \/ software_reset

Spec == Init /\ [][Next]_vars

(* ------------------------------------------------------------------ *)
(* The decoders of types.rs, applied to words chosen by the caller     *)
(* ------------------------------------------------------------------ *)

\* the words decoded: no bit set, every single bit, every word with a single
\* bit clear, all bits set, the vendor constant and its neighbours, and the
\* words the transport delivers
DecodeWords ==
    {0, 65535, MANUFACTURER_ID_TEXAS_INSTRUMENTS - 1,
     MANUFACTURER_ID_TEXAS_INSTRUMENTS, MANUFACTURER_ID_TEXAS_INSTRUMENTS + 1}
        \cup {2^k : k \in 0 .. 15}
        \cup {65535 - 2^k : k \in 0 .. 15}
        \cup Words

\* a caller holds a 16-bit word
DecodeInit ==
    /\ i2c_addr \in Constructed
    /\ op \in {[name |-> "u16", arg |-> w] : w \in DecodeWords}
    /\ step = 0
    /\ pc = "idle"
    /\ cmd_bytes = <<>>
    /\ read_buf = Zeros(6)
    /\ read_vals = <<>>
    /\ num_vals = 0
    /\ call_base = 0
    /\ attempts = 0
    /\ ret = NoResult
    /\ bytes = Zeros(6)
    /\ result = NoResult
    /\ bus = <<>>
    /\ heater_on = FALSE
    /\ heater_cfg = 0
    /\ auto_mode = FALSE

\* the caller applies a conversion: f names it, v is its value
Convert(from, f, v) ==
    /\ op.name = from
    /\ op' = [name |-> f, arg |-> op.arg]
    /\ result' = Ok(v)
    /\ UNCHANGED <<i2c_addr, step, pc, cmd_bytes, read_buf, read_vals, num_vals,
                   call_base, attempts, ret, bytes, bus, heater_on, heater_cfg,
                   auto_mode>>

status_from == Convert("u16", "StatusBits::from", StatusBits(op.arg))

status_raw == Convert("StatusBits::from", "StatusBits::raw", StatusBits_raw(result.val))

manufacturer_from == Convert("u16", "ManufacturerId::from", ManufacturerId(op.arg))

manufacturer_into ==
    Convert("ManufacturerId::from", "ManufacturerId::into", ManufacturerId_into(result.val))

DecodeNext ==
    \/ status_from
    \/ status_raw
    \/ manufacturer_from
    \/ manufacturer_into

DecodeSpec == DecodeInit /\ [][DecodeNext]_vars

(* ------------------------------------------------------------------ *)
(* Properties                                                          *)
(* ------------------------------------------------------------------ *)

\* cmd_and_read has just returned from a call that asked for 1 or 2 words
ReadReturned == pc = "ret" /\ num_vals \in {1, 2}

\* the bus entry of the last call made in the operation
LastBus == bus[Len(bus)]

\* C1: when cmd_and_read returns from a call with reply length N in {1,2}, it
\* returns Ok only if, for every word k < N, byte 3k+2 of the received buffer is
\* the CRC-8 of bytes 3k and 3k+1; when the checksum byte of some word does not
\* match, it returns CrcMismatch.
C1_ChecksumGate ==
    ReadReturned =>
        /\ SubSeq(read_buf, 1, 3 * num_vals) = LastBus.inp
        /\ ret.tag = "Ok" =>
               \A k \in 0 .. num_vals - 1 :
                   read_buf[3 * k + 3] = checksum(read_buf[3 * k + 1], read_buf[3 * k + 2])
        /\ (\E k \in 0 .. num_vals - 1 :
               read_buf[3 * k + 3] # checksum(read_buf[3 * k + 1], read_buf[3 * k + 2]))
               => ret = ErrCrcMismatch

\* C1 witness: a 2-word reply whose word 0 is intact and whose word 1 has only
\* its checksum byte corrupted was received, and the call returned CrcMismatch.
C1_Witness ==
    /\ ReadReturned
    /\ num_vals = 2
    /\ read_buf[3] = checksum(read_buf[1], read_buf[2])
    /\ read_buf[6] = Xor8(checksum(read_buf[4], read_buf[5]), 1)
    /\ ret = ErrCrcMismatch

\* C2: a call with reply length N in {1,2} never returns a transport error: it
\* returns Ok or CrcMismatch, also when its write_read failed, and then the bytes
\* it validated are those of a plain read that succeeded.
C2_NoTransportError ==
    ReadReturned =>
        /\ ret.tag \in {"Ok", "CrcMismatch"}
        /\ bus[call_base + 1].kind = "write_read"
        /\ ~bus[call_base + 1].ok => (LastBus.kind = "read" /\ LastBus.ok)

\* C2 witness: the write_read failed, a plain read failed too, and the call
\* still returned Ok.
C2_Witness ==
    /\ ReadReturned
    /\ ~bus[call_base + 1].ok
    /\ attempts >= 1
    /\ ret.tag = "Ok"

\* a heater call has returned an error to its caller
HeaterFailed ==
    pc = "idle" /\ op.name = "heater" /\ result.tag \in {"I2c", "CrcMismatch"}

\* C3 (as claimed): whenever the heater operation ends with an error, the
\* heater of the device is disabled.
C3_AsClaimed == HeaterFailed => ~heater_on

\* C3 (amended): whenever the heater operation ends with an error after its
\* heater-disable write succeeded, the heater of the device is disabled; when
\* the heater-disable write itself failed, nothing else was sent.
C3_FailSafeAfterDisable ==
    HeaterFailed =>
        /\ bus[1].out = Opcode("HeaterDisable")
        /\ bus[1].ok => ~heater_on
        /\ ~bus[1].ok => Len(bus) = 1

\* C3 witness: a heater call failed at its heater-enable step, after the new
\* level was configured, and the heater is off.
C3_Witness ==
    /\ HeaterFailed
    /\ Len(bus) = 3
    /\ heater_cfg = setting(op.arg)
    /\ ~heater_on

\* the commands a heater call for a level sends when every step succeeds
HeaterSequence(level) ==
    IF setting(level) = NoSetting
    THEN <<Opcode("HeaterDisable")>>
    ELSE <<Opcode("HeaterDisable"),
           Opcode("HeaterConfig") \o to_be_bytes(setting(level)),
           Opcode("HeaterEnable")>>

\* C4: at every point of a heater call the bus calls made so far are plain
\* writes of heater-disable, then heater-configure with its 2-byte parameter,
\* then heater-enable, in that order, each made only after the one before
\* succeeded; with a level that has no setting only heater-disable is sent; a
\* call that returns Ok has sent the whole sequence.
C4_HeaterOrder ==
    op.name = "heater" =>
        LET expected == HeaterSequence(op.arg)
        IN  /\ Len(bus) <= Len(expected)
            /\ \A i \in 1 .. Len(bus) :
                   /\ bus[i].kind = "write"
                   /\ bus[i].out = expected[i]
                   /\ i < Len(bus) => bus[i].ok
            /\ (pc = "idle" /\ result.tag = "Ok") =>
                   (Len(bus) = Len(expected) /\ LastBus.ok)

\* C4 witness: a heater call for the 25% level returned Ok after three writes,
\* the second of them 4 bytes long.
C4_Witness ==
    /\ pc = "idle"
    /\ op.name = "heater"
    /\ op.arg = "Quarter"
    /\ result.tag = "Ok"
    /\ Len(bus) = 3
    /\ Len(bus[2].out) = 4
    /\ heater_on

\* read_status(clear = true) has returned after its status read succeeded and
\* its status-clear write failed
StatusClearFailed ==
    /\ pc = "idle"
    /\ op.name = "read_status"
    /\ op.arg
    /\ step = 2
    /\ LastBus.out = Opcode("StatusClear")
    /\ ~LastBus.ok

\* the words of the replies the bus delivered in the operation, in order
ReceivedWords ==
    LET got == SelectSeq(bus, LAMBDA e : e.kind \in {"read", "write_read"} /\ e.ok)
    IN  [i \in 1 .. Len(got) |-> got[i].inp[1] * 256 + got[i].inp[2]]

\* C5 (as claimed): when the status read succeeds and the status clear after it
\* fails, the caller still receives the status word that was read.
C5_AsClaimed ==
    StatusClearFailed =>
        (result.tag = "Ok" /\ result.val = StatusBits(ReceivedWords[1]))

\* C5 (amended): when the status read succeeds and the status clear after it
\* fails, read_status returns the transport error of the clear; the status word
\* that was read and validated is not returned.
C5_ClearFailureLosesStatus ==
    StatusClearFailed =>
        /\ result.tag = "I2c"
        /\ result.val = LastBus.err
        /\ Len(ReceivedWords) = 1
        /\ read_vals = ReceivedWords

\* C5 witness: the status word 0xAABB was read and validated, the clear failed
\* and the caller got the transport error.
C5_Witness ==
    /\ StatusClearFailed
    /\ read_vals = <<43707>>
    /\ result = ErrI2c("Nack")

\* read_serial_number has returned a serial number
SerialDone ==
    pc = "idle" /\ op.name = "read_serial_number" /\ result.tag = "Ok"

\* the high and the low byte of a word
Hi(w) == w \div 256
Lo(w) == w % 256

\* C6 (as claimed): the serial number returned for the validated words h, m, l
\* (in the order read) is the byte array hi(h), lo(h), hi(m), lo(m), hi(l), lo(l).
C6_AsClaimed ==
    SerialDone =>
        LET h == ReceivedWords[1]
            m == ReceivedWords[2]
            l == ReceivedWords[3]
        IN  result.val.bytes = <<Hi(h), Lo(h), Hi(m), Lo(m), Hi(l), Lo(l)>>

\* C6 (amended): the serial number returned for the validated words h, m, l is
\* the byte array lo(l), hi(l), lo(m), hi(m), lo(h), hi(h) (least significant
\* byte at index 0); its Display form prints the bytes from index 5 down to 0,
\* which is the hexadecimal text of h, m, l in that order.
C6_SerialBytesLittleEndian ==
    SerialDone =>
        LET h == ReceivedWords[1]
            m == ReceivedWords[2]
            l == ReceivedWords[3]
        IN  /\ result.val.bytes = <<Lo(l), Hi(l), Lo(m), Hi(m), Lo(h), Hi(h)>>
            /\ fmt_SerialNumber(result.val.bytes) =
                   Hex2(Hi(h)) \o Hex2(Lo(h)) \o Hex2(Hi(m)) \o Hex2(Lo(m))
                       \o Hex2(Hi(l)) \o Hex2(Lo(l))

\* C6 witness: the words 0xAABB, 0xCCDD, 0xEEFF were read in that order and the
\* serial number prints as AABBCCDDEEFF.
C6_Witness ==
    /\ SerialDone
    /\ ReceivedWords = <<43707, 52445, 61183>>
    /\ result.val.bytes = <<255, 238, 221, 204, 187, 170>>
    /\ fmt_SerialNumber(result.val.bytes) =
           <<"A", "A", "B", "B", "C", "C", "D", "D", "E", "E", "F", "F">>

\* the checksum byte of every word of a received reply e matches
ReplyValid(e) ==
    \A k \in 0 .. (e.len \div 3) - 1 :
        e.inp[3 * k + 3] = checksum(e.inp[3 * k + 1], e.inp[3 * k + 2])

\* C7: read_serial_number sends its commands in the order SerialID54 (ID bits
\* 47:32), SerialID32 (31:16), SerialID10 (15:0), each a 1-word read; nothing
\* is put on the bus after a reply that failed validation; it returns a serial
\* number only after three validated replies, and CrcMismatch otherwise.
C7_SerialOrder ==
    op.name = "read_serial_number" =>
        LET cmds  == SelectSeq(bus, LAMBDA e : e.kind = "write_read")
            order == <<"SerialID54", "SerialID32", "SerialID10">>
        IN  /\ Len(cmds) <= 3
            /\ \A i \in 1 .. Len(cmds) :
                   cmds[i].out = Opcode(order[i]) /\ cmds[i].len = 3
            /\ \A i \in 1 .. Len(bus) - 1 :
                   (bus[i].kind \in {"read", "write_read"} /\ bus[i].ok)
                       => ReplyValid(bus[i])
            /\ pc = "idle" =>
                   /\ result.tag \in {"Ok", "CrcMismatch"}
                   /\ LastBus.ok
                   /\ result.tag = "Ok" <=> ReplyValid(LastBus)
                   /\ result.tag = "Ok" => Len(ReceivedWords) = 3

\* C7 witness: the second read of read_serial_number failed validation and the
\* operation returned CrcMismatch without sending the third command.
C7_Witness ==
    /\ pc = "idle"
    /\ op.name = "read_serial_number"
    /\ result = ErrCrcMismatch
    /\ Len(SelectSeq(bus, LAMBDA e : e.kind = "write_read")) = 2

\* cmd_and_read has just returned from a call that asked for no word
WriteReturned == pc = "ret" /\ num_vals = 0

\* C8: a cmd_and_read call with reply length 0 makes exactly one bus call, a
\* write of the 2-byte opcode that asks for no byte, and no write_read, read or
\* delay; it returns Ok when the write succeeded and otherwise the transport
\* error carrying the failure the write reported.
C8_WriteOnly ==
    WriteReturned =>
        /\ Len(bus) = call_base + 1
        /\ LastBus.kind = "write"
        /\ LastBus.by = "cmd_and_read"
        /\ LastBus.out = cmd_bytes
        /\ Len(LastBus.out) = 2
        /\ LastBus.len = 0
        /\ LastBus.ok => ret = OkUnit
        /\ ~LastBus.ok => (ret.tag = "I2c" /\ ret.val = LastBus.err)

\* C8 witness: the single write of a 0-word call failed with an arbitration
\* loss and that failure was returned.
C8_Witness ==
    /\ WriteReturned
    /\ Len(bus) = call_base + 1
    /\ LastBus.err = "ArbitrationLoss"
    /\ ret = ErrI2c("ArbitrationLoss")

\* C9 (as claimed): every bus call of every public operation is made by
\* cmd_and_read.
C9_AsClaimed ==
    \A i \in 1 .. Len(bus) : bus[i].by = "cmd_and_read"

\* C9 (amended): every bus call of every public operation is made by
\* cmd_and_read, except the 4-byte heater-configure write, the second bus call
\* of a heater call, which heater makes on the bus itself.
C9_OnlyHeaterConfigBypasses ==
    \A i \in 1 .. Len(bus) :
        \/ bus[i].by = "cmd_and_read"
        \/ /\ bus[i].by = "heater"
           /\ op.name = "heater"
           /\ i = 2
           /\ bus[i].kind = "write"
           /\ Len(bus[i].out) = 4
           /\ bus[i].out = Opcode("HeaterConfig") \o to_be_bytes(setting(op.arg))

\* C9 witness: a heater call that returned Ok made its second bus call itself
\* and the two others through cmd_and_read.
C9_Witness ==
    /\ pc = "idle"
    /\ op.name = "heater"
    /\ result.tag = "Ok"
    /\ Len(bus) = 3
    /\ bus[1].by = "cmd_and_read"
    /\ bus[2].by = "heater"
    /\ bus[3].by = "cmd_and_read"

\* the bus entries of the current cmd_and_read call after its write_read
LoopEntries == call_base + 2 .. Len(bus)

\* C10: a call with reply length N in {1,2} whose write_read failed stays in
\* the recovery loop as long as every plain read has failed, whatever their
\* number, and it returns right after the first plain read that succeeds: when
\* it has returned, its last bus call is a plain read that succeeded and every
\* bus call between the write_read and that read is a failed plain read or a
\* delay.
C10_ReturnsOnlyAfterReadSucceeds ==
    /\ pc \in {"read", "delay"} =>
           /\ ~bus[call_base + 1].ok
           /\ \A i \in LoopEntries : bus[i].kind = "delay" \/ ~bus[i].ok
           /\ Cardinality({i \in LoopEntries : bus[i].kind = "read"}) = attempts
    /\ (ReadReturned /\ ~bus[call_base + 1].ok) =>
           /\ LastBus.kind = "read"
           /\ LastBus.ok
           /\ \A i \in LoopEntries \ {Len(bus)} :
                  bus[i].kind = "delay" \/ (bus[i].kind = "read" /\ ~bus[i].ok)
           /\ Cardinality({i \in LoopEntries : bus[i].kind = "read"}) = attempts + 1

\* C10 witness: after a failed write_read and as many failed plain reads as the
\* transport produces, the call has returned from a plain read that succeeded.
C10_Witness ==
    /\ ReadReturned
    /\ ~bus[call_base + 1].ok
    /\ attempts = MaxRetries
    /\ LastBus.kind = "read"
    /\ LastBus.ok

\* the opcode, the reply length in words and the tag of the datum that belong
\* to a target of auto_read
AutoReadTable(target) ==
    CASE target = "LastTempAndRelHumid" ->
             [cmd |-> "AutoReadTempAndRelHumid", words |-> 2, tag |-> "TempAndRelHumid"]
      [] target = "MinTemp" ->
             [cmd |-> "AutoReadMinTemp", words |-> 1, tag |-> "MinTemp"]
      [] target = "MaxTemp" ->
             [cmd |-> "AutoReadMaxTemp", words |-> 1, tag |-> "MaxTemp"]
      [] target = "MinRelHumid" ->
             [cmd |-> "AutoReadMinRelHumid", words |-> 1, tag |-> "MinRelHumid"]
      [] target = "MaxRelHumid" ->
             [cmd |-> "AutoReadMaxRelHumid", words |-> 1, tag |-> "MaxRelHumid"]

\* C11: auto_read sends, for each of its five targets, the opcode of that
\* target, no two targets sharing one, and asks for 2 words (6 bytes) for the
\* last temperature+humidity pair and 1 word (3 bytes) for an extremum; when it
\* returns Ok the datum carries the tag of the target and the validated words
\* of the reply in the order received.
C11_AutoReadMapping ==
    op.name = "auto_read" =>
        LET row == AutoReadTable(op.arg)
        IN  /\ Len(bus) >= 1 =>
                   /\ \A t \in AutoReadTarget \ {op.arg} :
                          Opcode(AutoReadTable(t).cmd) # bus[1].out
                   /\ bus[1].kind = "write_read"
                   /\ bus[1].out = Opcode(row.cmd)
                   /\ bus[1].len = 3 * row.words
            /\ (pc = "idle" /\ result.tag = "Ok") =>
                   /\ result.val.kind = row.tag
                   /\ Len(ReceivedWords) = 1
                   /\ ReplyValid(LastBus)
                   /\ IF row.words = 2
                      THEN /\ result.val.temperature = LastBus.inp[1] * 256 + LastBus.inp[2]
                           /\ result.val.humidity = LastBus.inp[4] * 256 + LastBus.inp[5]
                      ELSE result.val.raw = LastBus.inp[1] * 256 + LastBus.inp[2]

\* C11 witness: auto_read for the minimum humidity returned a MinRelHumid datum
\* holding the word 0xCCDD of its 3-byte reply.
C11_Witness ==
    /\ pc = "idle"
    /\ op.name = "auto_read"
    /\ op.arg = "MinRelHumid"
    /\ result.tag = "Ok"
    /\ result.val = [kind |-> "MinRelHumid", raw |-> 52445]
    /\ bus[1].len = 3

\* the replies the bus delivered in the operation
Received == {i \in 1 .. Len(bus) : bus[i].kind \in {"read", "write_read"} /\ bus[i].ok}

\* the 16-bit words a returned value is built from
ResultWords(v) ==
    CASE v = <<>> -> {}
      [] v.kind = "TempAndRelHumid" -> {v.temperature, v.humidity}
      [] v.kind \in {"MinTemp", "MaxTemp", "MinRelHumid", "MaxRelHumid"} -> {v.raw}
      [] v.kind = "SerialNumber" ->
             {v.bytes[6] * 256 + v.bytes[5], v.bytes[4] * 256 + v.bytes[3],
              v.bytes[2] * 256 + v.bytes[1]}
      [] v.kind = "StatusBits" -> {StatusBits_raw(v)}
      [] v.kind \in {"TexasInstruments", "Other"} -> {ManufacturerId_into(v)}

\* C12: every public operation returns Ok, Error::I2c or Error::CrcMismatch,
\* never Error::InvalidInputData; when it returns Ok every reply it received
\* passed the checksum comparison in all its words and every word of the value
\* returned is a word of such a reply; when some reply it received has a word
\* whose checksum does not match, the caller gets CrcMismatch and no value.
C12_ValidatedOrError ==
    (pc = "idle" /\ op.name # "new") =>
        /\ result.tag \in {"Ok", "I2c", "CrcMismatch"}
        /\ result.tag # "InvalidInputData"
        /\ result.tag = "Ok" =>
               /\ \A i \in Received : ReplyValid(bus[i])
               /\ \A w \in ResultWords(result.val) :
                      \E i \in Received : \E k \in 0 .. (bus[i].len \div 3) - 1 :
                          w = bus[i].inp[3 * k + 1] * 256 + bus[i].inp[3 * k + 2]
        /\ (\E i \in Received : ~ReplyValid(bus[i])) => result = ErrCrcMismatch

\* C12 witness: one_shot received a 2-word reply whose word 0 is valid and
\* whose word 1 is not, and returned CrcMismatch to its caller.
C12_Witness ==
    /\ pc = "idle"
    /\ op.name = "one_shot"
    /\ LastBus.len = 6
    /\ LastBus.ok
    /\ LastBus.inp[3] = checksum(LastBus.inp[1], LastBus.inp[2])
    /\ LastBus.inp[6] # checksum(LastBus.inp[4], LastBus.inp[5])
    /\ result = ErrCrcMismatch

\* the command and the reply length in words of a sampling read, as a handle
\* that was just constructed issues them
FreshCommand ==
    IF op.name = "one_shot"
    THEN [out |-> to_be_bytes(start_sampling_command("OneShot", op.arg)), words |-> 2]
    ELSE [out |-> Opcode(AutoReadTable(op.arg).cmd), words |-> AutoReadTable(op.arg).words]

\* what entry i of the bus log of a sampling read asks of the bus: the
\* write_read of the command, then plain reads and 1 ms delays in turn
FreshRequest(i) ==
    IF i = 1 THEN <<"write_read", FreshCommand.out, 3 * FreshCommand.words>>
    ELSE IF i % 2 = 0 THEN <<"read", <<>>, 3 * FreshCommand.words>>
    ELSE <<"delay", <<>>, 1>>

\* C13: the handle keeps no operating mode. Whether or not auto_start and
\* auto_stop calls, successful or failed, have put the device into self-timed
\* sampling, one_shot and auto_read can be called on the idle handle, are never
\* rejected (they put their command on the bus and never return
\* InvalidInputData), and what they ask of the bus is what a handle that was
\* just constructed asks for the same argument.
C13_NoOperatingMode ==
    /\ pc = "idle" => (ENABLED one_shot /\ ENABLED auto_read)
    /\ op.name \in {"one_shot", "auto_read"} =>
           /\ \A i \in 1 .. Len(bus) :
                  <<bus[i].kind, bus[i].out, bus[i].len>> = FreshRequest(i)
           /\ pc = "idle" =>
                  /\ Len(bus) >= 1
                  /\ result.tag \in {"Ok", "CrcMismatch"}

\* C13 witness: one_shot returned a sample while the device was sampling on its
\* own after an auto_start.
C13_Witness ==
    /\ pc = "idle"
    /\ op.name = "one_shot"
    /\ auto_mode
    /\ result.tag = "Ok"
    /\ bus[1].out = to_be_bytes(start_sampling_command("OneShot", op.arg))

\* C14: every write, write_read and read on the bus is addressed to the 7-bit
\* address the handle was constructed with, in every operation and after every
\* outcome, and no step of any operation changes the address the handle stores.
C14_AddressFixed ==
    /\ [](\A i \in 1 .. Len(bus) :
              bus[i].kind \in {"write", "write_read", "read"} =>
                  bus[i].addr = as_u8(i2c_addr))
    /\ [][i2c_addr' = i2c_addr]_vars

\* C14 witness: a handle constructed with the highest address set a heater
\* level after other operations had failed; its three writes, the one heater
\* makes itself included, went to 0x47.
C14_Witness ==
    /\ pc = "idle"
    /\ i2c_addr = "Addr11"
    /\ op.name = "heater"
    /\ result.tag = "Ok"
    /\ Len(bus) = 3
    /\ bus[2].by = "heater"
    /\ \A i \in 1 .. 3 : bus[i].kind = "write" /\ bus[i].addr = 71

\* one_shot has returned a datum to its caller
OneShotDatum == pc = "idle" /\ op.name = "one_shot" /\ result.tag = "Ok"

\* C15 (as claimed): on the datum a successful one_shot returns,
\* humidity_percent() and centigrade() are both present values.
C15_AsClaimed ==
    OneShotDatum =>
        /\ humidity_percent(result.val).some
        /\ centigrade(result.val).some

\* C15 (what the code does): on the datum a successful one_shot returns,
\* centigrade() is the conversion of the temperature word and
\* humidity_percent() is absent, although the datum holds the humidity word.
C15_OneShotHumidityAbsent ==
    OneShotDatum =>
        /\ result.val.kind = "TempAndRelHumid"
        /\ result.val.humidity = LastBus.inp[4] * 256 + LastBus.inp[5]
        /\ centigrade(result.val) = Some(raw_temp_to_centigrade(result.val.temperature))
        /\ humidity_percent(result.val) = None

\* C15 witness: one_shot returned temperature 0xAABB and humidity 0xCCDD;
\* centigrade() is 71.71 degrees and humidity_percent() is absent.
C15_Witness ==
    /\ OneShotDatum
    /\ result.val.temperature = 43707
    /\ result.val.humidity = 52445
    /\ centigrade(result.val) = Some(7171)
    /\ humidity_percent(result.val) = None

\* C16: ManufacturerId::from gives TexasInstruments exactly when the word is
\* the vendor constant and Other carrying the word itself for every other
\* word; converting the decoded value back with into gives the word that was
\* decoded, for every word.
C16_ManufacturerIdRoundTrip ==
    /\ op.name = "ManufacturerId::from" =>
           /\ result.val.kind = "TexasInstruments"
                  <=> op.arg = MANUFACTURER_ID_TEXAS_INSTRUMENTS
           /\ op.arg # MANUFACTURER_ID_TEXAS_INSTRUMENTS =>
                  result.val = [kind |-> "Other", id |-> op.arg]
    /\ op.name = "ManufacturerId::into" => result = Ok(op.arg)

\* C16 witness: the word next to the vendor constant was decoded as Other and
\* converted back to itself.
C16_Witness ==
    /\ op.name = "ManufacturerId::into"
    /\ op.arg = MANUFACTURER_ID_TEXAS_INSTRUMENTS + 1
    /\ result = Ok(MANUFACTURER_ID_TEXAS_INSTRUMENTS + 1)

\* C17: decoding the status word in which only the heater-enabled bit is set
\* gives heater_enabled true and the nine other flags false; for every status
\* word, raw() of the decoded value is the word that was decoded.
C17_StatusDecode ==
    /\ (op.name = "StatusBits::from"
            /\ op.arg = 2^STATUS_FIELD_LSBIT_HEATER_ENABLED) =>
           /\ result.val.heater_enabled
           /\ \A f \in StatusFlags \ {"heater_enabled"} : ~result.val[f]
    /\ op.name = "StatusBits::from" => StatusBits_raw(result.val) = op.arg
    /\ op.name = "StatusBits::raw" => result = Ok(op.arg)

\* C17 witness: the word 0x2000 was decoded and its heater_enabled flag is set.
C17_Witness ==
    /\ op.name = "StatusBits::from"
    /\ op.arg = 8192
    /\ result.val.heater_enabled
    /\ ~result.val.at_least_one_alert
    /\ result.val.raw = 8192

\* the reply length in words of the reading calls of the operation
RequestedWords ==
    CASE op.name = "one_shot" -> 2
      [] op.name = "auto_read" -> AutoReadTable(op.arg).words
      [] op.name \in {"read_status", "read_serial_number", "read_manufacturer_id"} -> 1
      [] OTHER -> 0

\* C18: a call with reply length N in {1,2} asks for exactly 3N bytes in its
\* write_read and in every plain read of the recovery loop, and receives that
\* many when the bus call succeeds; when the call returns Ok, word k of its
\* result is byte 3k of the reply times 256 plus byte 3k+1, for k = 0..N-1 in
\* the order of the reply.
C18_ReplyLengthAndWords ==
    /\ \A i \in 1 .. Len(bus) :
           bus[i].kind \in {"write_read", "read"} =>
               /\ RequestedWords \in {1, 2}
               /\ bus[i].len = 3 * RequestedWords
               /\ bus[i].ok => Len(bus[i].inp) = 3 * RequestedWords
    /\ (ReadReturned /\ ret.tag = "Ok") =>
           /\ num_vals = RequestedWords
           /\ \A k \in 0 .. num_vals - 1 :
                  read_vals[k + 1] =
                      LastBus.inp[3 * k + 1] * 256 + LastBus.inp[3 * k + 2]

\* C18 witness: a 2-word call whose write_read failed asked for 6 bytes three
\* times and returned the words 0xAABB and 0xCCDD of the reply AA BB .. CC DD ..
C18_Witness ==
    /\ ReadReturned
    /\ ret.tag = "Ok"
    /\ num_vals = 2
    /\ Len(bus) = 4
    /\ bus[1].len = 6 /\ bus[2].len = 6 /\ bus[4].len = 6
    /\ SubSeq(LastBus.inp, 1, 2) = <<170, 187>>
    /\ SubSeq(LastBus.inp, 4, 5) = <<204, 221>>
    /\ read_vals = <<43707, 52445>>

\* the checksum byte of word k of a received reply e does not match
WordBad(e, k) == e.inp[3 * k + 3] # checksum(e.inp[3 * k + 1], e.inp[3 * k + 2])

\* C19: the words of a reply are validated in order and validation stops at the
\* first word whose checksum does not match. The call returns CrcMismatch, the
\* words before that word are stored and neither that word nor a later one is;
\* the reply is the last entry of the bus log of the operation for good: no
\* retry, no read, write or delay follows it, a sequence of several commands
\* sends none of its remaining commands, and the operation returns CrcMismatch.
C19_StopAtFirstMismatch ==
    /\ \A i \in Received : ~ReplyValid(bus[i]) =>
           /\ i = Len(bus)
           /\ pc \in {"ret", "idle"}
           /\ ret = ErrCrcMismatch
           /\ pc = "idle" => result = ErrCrcMismatch
    /\ (ReadReturned /\ num_vals = 2 /\ ret = ErrCrcMismatch) =>
           IF WordBad(LastBus, 0)
           THEN read_vals = <<0, 0>>
           ELSE read_vals = <<LastBus.inp[1] * 256 + LastBus.inp[2], 0>>

\* C19 witness: read_serial_number received a valid first reply and a second
\* reply whose checksum does not match; it returned CrcMismatch and its third
\* command was never sent.
C19_Witness ==
    /\ pc = "idle"
    /\ op.name = "read_serial_number"
    /\ result = ErrCrcMismatch
    /\ Len(bus) = 2
    /\ bus[1].ok /\ bus[2].ok
    /\ ReplyValid(bus[1])
    /\ ~ReplyValid(bus[2])
    /\ bus[2].out = Opcode("SerialID32")

\* C20: in the recovery loop exactly one delay of 1 ms lies between two
\* consecutive plain reads: a plain read that failed is followed by one delay
\* and the delay by the next plain read. No delay follows a plain read that
\* succeeded, and no delay is taken in a call whose write_read succeeded.
C20_OneDelayBetweenReads ==
    /\ \A i \in 1 .. Len(bus) :
           /\ bus[i].kind = "delay" =>
                  /\ bus[i].len = 1
                  /\ i > 1
                  /\ bus[i - 1].kind = "read"
                  /\ ~bus[i - 1].ok
                  /\ i < Len(bus) => bus[i + 1].kind = "read"
           /\ (bus[i].kind = "read" /\ ~bus[i].ok) =>
                  IF i < Len(bus) THEN bus[i + 1].kind = "delay" ELSE pc = "delay"
           /\ (bus[i].kind \in {"read", "write_read"} /\ bus[i].ok /\ i < Len(bus)) =>
                  bus[i + 1].kind \in {"write", "write_read"}
    /\ (Len(bus) > call_base /\ bus[call_base + 1].kind = "write_read"
            /\ bus[call_base + 1].ok) =>
           /\ Len(bus) = call_base + 1
           /\ pc \in {"ret", "idle"}

\* C20 witness: a call whose write_read and first plain read failed took one
\* delay of 1 ms, read again with success and returned without another delay.
C20_Witness ==
    /\ pc = "idle"
    /\ Len(bus) = 4
    /\ bus[1].kind = "write_read" /\ ~bus[1].ok
    /\ bus[2].kind = "read" /\ ~bus[2].ok
    /\ bus[3].kind = "delay" /\ bus[3].len = 1
    /\ bus[4].kind = "read" /\ bus[4].ok
    /\ result.tag = "Ok"

\* the entries of the bus log that carry the command c
Sent(c) == {i \in 1 .. Len(bus) : bus[i].out = Opcode(c)}

\* C21: read_status puts the status-clear command on the bus only when clear
\* was requested and only after a reply to the status read was received and
\* passed validation; the status-read command is sent once, first, and never
\* again, nothing follows the clear, and when the status read fails
\* validation no clear is sent. When clear was requested and the read was
\* validated, the clear is sent before the operation returns.
C21_ClearOnlyAfterValidRead ==
    op.name = "read_status" =>
        /\ \A i \in Sent("StatusClear") :
               /\ op.arg
               /\ bus[i].kind = "write"
               /\ i = Len(bus)
               /\ i > 1
               /\ bus[i - 1].kind \in {"write_read", "read"}
               /\ bus[i - 1].ok
               /\ ReplyValid(bus[i - 1])
        /\ Sent("StatusRead") \subseteq {1}
        /\ \A i \in 1 .. Len(bus) :
               bus[i].kind \in {"write", "write_read"} =>
                   i \in Sent("StatusRead") \cup Sent("StatusClear")
        /\ (pc = "idle" /\ \E i \in Received : ~ReplyValid(bus[i])) =>
               Sent("StatusClear") = {}
        /\ (pc = "idle" /\ ~op.arg) => Sent("StatusClear") = {}
        /\ (pc = "idle" /\ op.arg /\ \E i \in Received : ReplyValid(bus[i])) =>
               Sent("StatusClear") # {}

\* C21 witness: read_status(true) read a valid status word after a failed
\* write_read, then sent the clear and returned the status.
C21_Witness ==
    /\ pc = "idle"
    /\ op.name = "read_status"
    /\ op.arg
    /\ result.tag = "Ok"
    /\ Len(bus) = 5
    /\ Sent("StatusRead") = {1}
    /\ ~bus[1].ok
    /\ bus[4].kind = "read" /\ bus[4].ok
    /\ Sent("StatusClear") = {5}

\* C22: every call of cmd_and_read, by whichever public operation, passes a
\* result array of 0, 1 or 2 words: assert!(num_vals <= 2) never fails, and
\* the 3 * num_vals bytes of the reply fit the 6-byte buffer.
C22_AssertionHolds ==
    /\ pc # "panic"
    /\ num_vals \in {0, 1, 2}
    /\ num_vals <= Len(read_vals)
    /\ 3 * num_vals <= Len(read_buf)
    /\ \A i \in 1 .. Len(bus) : bus[i].kind \in {"write_read", "read"} => bus[i].len <= 6

\* C22 witness: a call with the largest result array, 2 words, passed the
\* assertion, filled all 6 bytes of the buffer and returned Ok.
C22_Witness ==
    /\ pc = "ret"
    /\ num_vals = 2
    /\ Len(read_vals) = 2
    /\ LastBus.ok
    /\ Len(LastBus.inp) = 6
    /\ read_buf = LastBus.inp
    /\ ret = OkUnit

\* the bus entries cmd_and_read has made in its current call
CallEntries == {i \in call_base + 1 .. Len(bus) : bus[i].by = "cmd_and_read"}

\* C23: within one call of cmd_and_read the command bytes are put on the bus at
\* most once, by the first bus call of the call. Whatever the number of plain
\* reads the recovery loop takes after a failed write_read, every later entry
\* of the call is a plain read or a delay and carries no command bytes.
C23_OpcodeSentOnce ==
    /\ Cardinality({i \in CallEntries : bus[i].out # <<>>}) <= 1
    /\ \A i \in CallEntries :
           IF i = call_base + 1
           THEN /\ bus[i].kind \in {"write", "write_read"}
                /\ Len(bus[i].out) = 2
                /\ pc \in {"read", "delay", "ret"} => bus[i].out = cmd_bytes
           ELSE /\ bus[i].kind \in {"read", "delay"}
                /\ bus[i].out = <<>>
                /\ bus[call_base + 1].kind = "write_read"
                /\ ~bus[call_base + 1].ok

\* C23 witness: the second call of read_serial_number went through the recovery
\* loop with a failed plain read and returned; its command is on the bus once.
C23_Witness ==
    /\ pc = "ret"
    /\ op.name = "read_serial_number"
    /\ step = 2
    /\ attempts = MaxRetries
    /\ LastBus.kind = "read"
    /\ LastBus.ok
    /\ {i \in CallEntries : bus[i].out = Opcode("SerialID32")} = {call_base + 1}
    /\ Cardinality(CallEntries) = 2 * MaxRetries + 2

====
